---- MODULE Spec2Model ----
(***************************************************************************)
(* Model of the GPR defect demo: the schema and sample-data generator      *)
(* (database_setup.py), the Streamlit script (app.py) with its cached       *)
(* analytics query, chat handler and SQL-trace extractor, and the agent     *)
(* wrapper (gpr_agent.py).                                                  *)
(*                                                                          *)
(* The SQLite store is modelled with the transaction behaviour of Python's  *)
(* sqlite3 module: DDL statements run in autocommit mode, the first INSERT  *)
(* of a connection opens an implicit transaction that holds the write lock  *)
(* and whose rows are invisible to other connections until conn.commit().   *)
(***************************************************************************)
EXTENDS Integers, Sequences, FiniteSets, TLC

VARIABLES
    store,        \* gpr_defects.db: file present, existing tables, committed rows
    txn,          \* per process: the connection's open write transaction
    pc,           \* per process: position in the script
    role,         \* per process: "cli" (database_setup.py __main__), "app" (app.py), "off"
    runs,         \* per process: number of create_database() calls started
    i,            \* per process: loop index of populate_sample_data
    num_defects,  \* per process: defects still to insert for the current scan
    scan_ids,     \* per process: populate_sample_data's scan_ids list
    defect_ids,   \* per process: populate_sample_data's defect_ids list
    err,          \* per process: the exception that ended the script run, or NoErr
    cache,        \* st.cache_data entry of get_db_stats (one per server process)
    stats,        \* per session: the stats dict get_db_stats builds and returns
    event,        \* per session: the widget event that triggered the script run
    query,        \* per session: content of the question text input
    session,      \* per session: st.session_state
    sys_stdout,   \* the process-wide sys.stdout: Console or the id of a StringIO
    nbuf,         \* number of StringIO objects created so far
    old_stdout,   \* per session: the chat handler's old_stdout
    captured_output, \* per session: id of the handler's StringIO, Console when none
    captured,     \* per session: content of the handler's StringIO
    agent_out,    \* per session: how the last agent.invoke() ended
    result,       \* per session: the chat handler's result
    ui,           \* per session: what the chat handler displayed in this run
    clock,        \* datetime.now(), as a logical time
    output_text,  \* argument of a direct call of extract_sql_from_output
    sql_queries   \* its return value

genVars == <<store, txn, pc, role, runs, i, num_defects, scan_ids, defect_ids, err>>
webVars == <<cache, stats, event, query, session>>
chatVars == <<sys_stdout, nbuf, old_stdout, captured_output, captured, agent_out,
              result, ui, clock>>
exVars == <<output_text, sql_queries>>
appVars == <<webVars, chatVars, exVars>>
vars == <<genVars, appVars>>

(***************************************************************************)
(* Bounds of the model.  The generator's sizes (15 scans, 5..15 defects    *)
(* per scan, 30 repair records) are scaled down; the formulas are stated    *)
(* in terms of these names, so 15/5/15/30 are one instance of them.         *)
(***************************************************************************)
NumScans == 1
MinDefects == 1
NumRepairs == 1
MaxRuns == 2
MaxQuestions == 2
MaxTextLen == 3
MaxLines == 2
MaxDefects == MinDefects + 1

Procs == {"p1", "p2"}

NoErr == "none"

\* the stream sys.stdout is before any redirection
Console == 0

TableNames == {"scans", "defects", "measurements", "repair_history"}
DropOrder == <<"repair_history", "measurements", "defects", "scans">>
CreateOrder == <<"scans", "defects", "measurements", "repair_history">>

\* CHECK constraints of the schema
Severities == {"low", "medium", "high", "critical"}
MeasurementTypes == {"length", "width", "area", "volume"}
Statuses == {"planned", "in_progress", "completed", "verified"}

\* the values the model lets random.choices(severities) / random.choice([...status...]) return
SeverityChoices == {"low", "critical"}
StatusChoices == {"planned", "completed"}

EmptyRows == [t \in TableNames |-> <<>>]
NoTxn == [open |-> FALSE, rows |-> EmptyRows]

RECURSIVE MaxOf(_, _)
MaxOf(s, k) == IF k = 0 THEN 0
               ELSE LET m == MaxOf(s, k - 1) IN IF s[k].id > m THEN s[k].id ELSE m

\* rows a connection sees: the committed rows followed by its own pending ones
Visible(p, t) == store.rows[t] \o txn[p].rows[t]

\* AUTOINCREMENT: one more than the largest id of the table (the sequence is
\* dropped with the table, and no row is ever deleted)
NextRowId(p, t) == MaxOf(Visible(p, t), Len(Visible(p, t))) + 1

\* (mutant) the loop index is taken for the row id
LastRowIdOffByOne(r) == r.id - 1

\* cursor.lastrowid after the INSERT that appended row r
LastRowId(r) == r.id

\* (mutant) the table is removed from the schema but its rows survive the reset
DropTableKeepsRows(st, t) == [st EXCEPT !.tables = @ \ {t}]

DropTable(st, t) == [st EXCEPT !.tables = @ \ {t}, !.rows[t] = <<>>]
CreateTable(st, t) == [st EXCEPT !.tables = @ \cup {t}]

\* another connection holds the write lock
WriteLocked(p) == \E q \in Procs \ {p} : txn[q].open

\* cursor.execute('INSERT INTO t ...'): opens the implicit transaction if needed
InsertRow(p, t, r) == [open |-> TRUE, rows |-> [txn[p].rows EXCEPT ![t] = Append(@, r)]]

CanWrite(p, t) == t \in store.tables /\ ~WriteLocked(p)

\* the CHECK constraint of table t accepts row r
CheckOk(t, r) ==
    CASE t = "defects" -> r.severity \in Severities
      [] t = "measurements" -> r.measurement_type \in MeasurementTypes
      [] t = "repair_history" -> r.status \in Statuses
      [] OTHER -> TRUE

ScanRow(id) == [id |-> id]
DefectRow(id, sid, sev) == [id |-> id, scan_id |-> sid, severity |-> sev]
LengthRow(id, did) == [id |-> id, defect_id |-> did, measurement_type |-> "length"]
\* (mutant) the second measurement is written with type 'length' too
WidthRowAsLength(id, did) == [id |-> id, defect_id |-> did, measurement_type |-> "length"]

WidthRow(id, did) == [id |-> id, defect_id |-> did, measurement_type |-> "width"]
RepairRow(id, did, st) == [id |-> id, defect_id |-> did, status |-> st]

\* ------------------------------------------------------------------------
\* extract_sql_from_output(output_text)
\*
\* A text is a sequence of tokens: the markers and keywords the six patterns
\* look for, a blank, a line break, and "x" for any other run of characters.
\* "select" is SELECT in lower case (the patterns are compiled with
\* re.IGNORECASE); with re.DOTALL '.' matches the line break too.

Tokens == {"Action Input:", "sql_db_query", "SELECT", "select", "FROM", "INSERT",
           "INTO", "UPDATE", "SET", "DELETE", " ", "\n", "x"}

IsSpace(c) == c \in {" ", "\n"}
Fold(c) == IF c = "select" THEN "SELECT" ELSE c

\* the six patterns, in the order of the list
Patterns == <<
    [kind |-> "after", first |-> "Action Input:", second |-> "SELECT"],
    [kind |-> "lazy", first |-> "sql_db_query", second |-> "SELECT"],
    [kind |-> "stmt", first |-> "SELECT", second |-> "FROM"],
    [kind |-> "stmt", first |-> "INSERT", second |-> "INTO"],
    [kind |-> "stmt", first |-> "UPDATE", second |-> "SET"],
    [kind |-> "stmt", first |-> "DELETE", second |-> "FROM"] >>

\* first position >= k that is a line break, or Len+1: where '.*?(?:\n|$)' stops
RECURSIVE LineEnd(_, _)
LineEnd(text, k) ==
    IF k > Len(text) \/ text[k] = "\n" THEN k ELSE LineEnd(text, k + 1)

\* first position >= k that is no white space, or Len+1: where '\s*' stops
RECURSIVE SkipSpace(_, _)
SkipSpace(text, k) ==
    IF k > Len(text) \/ ~IsSpace(text[k]) THEN k ELSE SkipSpace(text, k + 1)

\* first position >= k holding keyword kw, or Len+1: where '.*?kw' finds kw
RECURSIVE FindToken(_, _, _)
FindToken(text, kw, k) ==
    IF k > Len(text) \/ Fold(text[k]) = kw THEN k ELSE FindToken(text, kw, k + 1)

NoMatch == [ok |-> FALSE, from |-> 0, to |-> 0, next |-> 0]

\* the group runs from position g to the end of the line that holds position k
GroupTo(text, g, k) ==
    LET e == LineEnd(text, k)
    IN  [ok |-> TRUE, from |-> g, to |-> e - 1,
         next |-> IF e <= Len(text) THEN e + 1 ELSE e]

\* the match of pattern pat that starts at position a, if there is one
MatchAt(pat, text, a) ==
    IF Fold(text[a]) # pat.first THEN NoMatch
    ELSE IF pat.kind = "after" THEN
        \* Action Input:\s*(SELECT.*?)(?:\n|$)
        LET b == SkipSpace(text, a + 1)
        IN  IF b <= Len(text) /\ Fold(text[b]) = pat.second
              THEN GroupTo(text, b, b + 1) ELSE NoMatch
    ELSE IF pat.kind = "lazy" THEN
        \* sql_db_query.*?(SELECT.*?)(?:\n|$)
        LET b == FindToken(text, pat.second, a + 1)
        IN  IF b <= Len(text) THEN GroupTo(text, b, b + 1) ELSE NoMatch
    ELSE
        \* (KW1\s+.*?KW2.*?)(?:\n|$)
        IF a + 1 <= Len(text) /\ IsSpace(text[a + 1])
          THEN LET f == FindToken(text, pat.second, a + 2)
               IN  IF f <= Len(text) THEN GroupTo(text, a, f + 1) ELSE NoMatch
          ELSE NoMatch

\* re.findall(pattern, text): the non-overlapping matches, scanning from
\* position k, leftmost first; each as the span of its group
RECURSIVE MatchSpans(_, _, _)
MatchSpans(pat, text, k) ==
    IF k > Len(text) THEN <<>>
    ELSE LET m == MatchAt(pat, text, k)
         IN  IF m.ok THEN <<m>> \o MatchSpans(pat, text, m.next)
             ELSE MatchSpans(pat, text, k + 1)

\* (mutant) each pattern contributes its first match only
FindFirst(pat, text) ==
    LET spans == MatchSpans(pat, text, 1)
    IN  IF spans = <<>> THEN <<>>
        ELSE <<SubSeq(text, spans[1].from, spans[1].to)>>

FindAll(pat, text) ==
    LET spans == MatchSpans(pat, text, 1)
    IN  [j \in 1..Len(spans) |-> SubSeq(text, spans[j].from, spans[j].to)]

\* for pattern in patterns: sql_queries.extend(re.findall(pattern, ...)),
\* from pattern number k on
RECURSIVE ExtendAll(_, _, _)
ExtendAll(sql, text, k) ==
    IF k > Len(Patterns) THEN sql
    ELSE ExtendAll(sql \o FindAll(Patterns[k], text), text, k + 1)

\* Python values of the result: None, or a list
PyNone == [none |-> TRUE, list |-> <<>>]
PyList(l) == [none |-> FALSE, list |-> l]

\* (mutant) the list is returned as it is, empty or not
ReturnList(sql) == PyList(sql)

\* return sql_queries if sql_queries else None
ReturnOrNone(sql) == IF sql # <<>> THEN PyList(sql) ELSE PyNone

extract_sql_from_output(text) == ReturnOrNone(ExtendAll(<<>>, text, 1))

\* ------------------------------------------------------------------------
\* create_database()

\* sqlite3.connect('gpr_defects.db') creates the file when it is absent
Connect(p) ==
    /\ pc[p] = "connect"
    /\ store' = [store EXCEPT !.file = TRUE]
    /\ runs' = [runs EXCEPT ![p] = @ + 1]
    /\ i' = [i EXCEPT ![p] = 1]
    /\ pc' = [pc EXCEPT ![p] = "drop"]
    /\ scan_ids' = [scan_ids EXCEPT ![p] = <<>>]
    /\ defect_ids' = [defect_ids EXCEPT ![p] = <<>>]
    /\ UNCHANGED <<txn, role, num_defects, err>>
    /\ UNCHANGED appVars

\* DROP TABLE IF EXISTS, one statement per step, each committed at once
DropStep(p) ==
    /\ pc[p] = "drop"
    /\ ~WriteLocked(p)
    /\ store' = DropTable(store, DropOrder[i[p]])
    /\ IF i[p] = Len(DropOrder)
         THEN /\ pc' = [pc EXCEPT ![p] = "create"]
              /\ i' = [i EXCEPT ![p] = 1]
         ELSE /\ i' = [i EXCEPT ![p] = @ + 1]
              /\ pc' = pc
    /\ UNCHANGED <<txn, role, runs, num_defects, scan_ids, defect_ids, err>>
    /\ UNCHANGED appVars

\* CREATE TABLE, one statement per step; conn.commit() and the return follow the last
CreateStep(p) ==
    /\ pc[p] = "create"
    /\ ~WriteLocked(p)
    /\ CreateOrder[i[p]] \notin store.tables
    /\ store' = CreateTable(store, CreateOrder[i[p]])
    /\ IF i[p] = Len(CreateOrder)
         THEN /\ pc' = [pc EXCEPT ![p] = "ins_scan"]
              /\ i' = [i EXCEPT ![p] = 0]
         ELSE /\ i' = [i EXCEPT ![p] = @ + 1]
              /\ pc' = pc
    /\ UNCHANGED <<txn, role, runs, num_defects, scan_ids, defect_ids, err>>
    /\ UNCHANGED appVars

\* ------------------------------------------------------------------------
\* populate_sample_data(conn)

\* for i in range(15): INSERT INTO scans; scan_ids.append(cursor.lastrowid)
InsertScan(p) ==
    /\ pc[p] = "ins_scan"
    /\ CanWrite(p, "scans")
    /\ LET r == ScanRow(NextRowId(p, "scans")) IN
         /\ txn' = [txn EXCEPT ![p] = InsertRow(p, "scans", r)]
         /\ scan_ids' = [scan_ids EXCEPT ![p] = Append(@, LastRowId(r))]
    /\ IF i[p] + 1 = NumScans
         THEN /\ pc' = [pc EXCEPT ![p] = "pick_num_defects"]
              /\ i' = [i EXCEPT ![p] = 1]
         ELSE /\ i' = [i EXCEPT ![p] = @ + 1]
              /\ pc' = pc
    /\ UNCHANGED <<store, role, runs, num_defects, defect_ids, err>>
    /\ UNCHANGED appVars

\* for scan_id in scan_ids: num_defects = random.randint(5, 15)
PickNumDefects(p) ==
    /\ pc[p] = "pick_num_defects"
    /\ \E n \in MinDefects..MaxDefects :
         num_defects' = [num_defects EXCEPT ![p] = n]
    /\ pc' = [pc EXCEPT ![p] = "ins_defect"]
    /\ UNCHANGED <<store, txn, role, runs, i, scan_ids, defect_ids, err>>
    /\ UNCHANGED appVars

\* for _ in range(num_defects): INSERT INTO defects; defect_ids.append(cursor.lastrowid)
InsertDefect(p) ==
    /\ pc[p] = "ins_defect"
    /\ CanWrite(p, "defects")
    /\ \E sev \in SeverityChoices :
         LET r == DefectRow(NextRowId(p, "defects"), scan_ids[p][i[p]], sev) IN
           /\ CheckOk("defects", r)
           /\ txn' = [txn EXCEPT ![p] = InsertRow(p, "defects", r)]
           /\ defect_ids' = [defect_ids EXCEPT ![p] = Append(@, LastRowId(r))]
    /\ num_defects' = [num_defects EXCEPT ![p] = @ - 1]
    /\ IF num_defects[p] > 1
         THEN /\ pc' = pc
              /\ i' = i
         ELSE IF i[p] < Len(scan_ids[p])
                THEN /\ pc' = [pc EXCEPT ![p] = "pick_num_defects"]
                     /\ i' = [i EXCEPT ![p] = @ + 1]
                ELSE /\ pc' = [pc EXCEPT ![p] = "ins_length"]
                     /\ i' = [i EXCEPT ![p] = 1]
    /\ UNCHANGED <<store, role, runs, scan_ids, err>>
    /\ UNCHANGED appVars

\* for defect_id in defect_ids: INSERT INTO measurements (..., 'length', ...)
InsertLength(p) ==
    /\ pc[p] = "ins_length"
    /\ CanWrite(p, "measurements")
    /\ LET r == LengthRow(NextRowId(p, "measurements"), defect_ids[p][i[p]]) IN
         /\ CheckOk("measurements", r)
         /\ txn' = [txn EXCEPT ![p] = InsertRow(p, "measurements", r)]
    /\ pc' = [pc EXCEPT ![p] = "ins_width"]
    /\ UNCHANGED <<store, role, runs, i, num_defects, scan_ids, defect_ids, err>>
    /\ UNCHANGED appVars

\* ... INSERT INTO measurements (..., 'width', ...)
InsertWidth(p) ==
    /\ pc[p] = "ins_width"
    /\ CanWrite(p, "measurements")
    /\ LET r == WidthRow(NextRowId(p, "measurements"), defect_ids[p][i[p]]) IN
         /\ CheckOk("measurements", r)
         /\ txn' = [txn EXCEPT ![p] = InsertRow(p, "measurements", r)]
    /\ IF i[p] < Len(defect_ids[p])
         THEN /\ pc' = [pc EXCEPT ![p] = "ins_length"]
              /\ i' = [i EXCEPT ![p] = @ + 1]
         ELSE /\ pc' = [pc EXCEPT ![p] = "ins_repair"]
              /\ i' = [i EXCEPT ![p] = 0]
    /\ UNCHANGED <<store, role, runs, num_defects, scan_ids, defect_ids, err>>
    /\ UNCHANGED appVars

\* for _ in range(30): defect_id = random.choice(defect_ids); INSERT INTO repair_history
InsertRepair(p) ==
    /\ pc[p] = "ins_repair"
    /\ CanWrite(p, "repair_history")
    /\ \E k \in 1..Len(defect_ids[p]), st \in StatusChoices :
         LET r == RepairRow(NextRowId(p, "repair_history"), defect_ids[p][k], st) IN
           /\ CheckOk("repair_history", r)
           /\ txn' = [txn EXCEPT ![p] = InsertRow(p, "repair_history", r)]
    /\ IF i[p] + 1 = NumRepairs
         THEN pc' = [pc EXCEPT ![p] = "commit"]
         ELSE pc' = pc
    /\ i' = [i EXCEPT ![p] = @ + 1]
    /\ UNCHANGED <<store, role, runs, num_defects, scan_ids, defect_ids, err>>
    /\ UNCHANGED appVars

\* the store after the connection's pending rows are committed
Committed(st, t) == [st EXCEPT !.rows = [u \in TableNames |-> st.rows[u] \o t.rows[u]]]

\* conn.commit() at the end of populate_sample_data
Commit(p) ==
    /\ pc[p] = "commit"
    /\ store' = Committed(store, txn[p])
    /\ txn' = [txn EXCEPT ![p] = NoTxn]
    /\ pc' = [pc EXCEPT ![p] = "close"]
    /\ UNCHANGED <<role, runs, i, num_defects, scan_ids, defect_ids, err>>
    /\ UNCHANGED appVars

\* populate_sample_data returns (its variables are gone) and conn.close()
\* follows; the CLI script ends, the app script goes on
Close(p) ==
    /\ pc[p] = "close"
    /\ pc' = [pc EXCEPT ![p] = IF role[p] = "cli" THEN "exited" ELSE "session_init"]
    /\ i' = [i EXCEPT ![p] = 0]
    /\ scan_ids' = [scan_ids EXCEPT ![p] = <<>>]
    /\ defect_ids' = [defect_ids EXCEPT ![p] = <<>>]
    /\ UNCHANGED <<store, txn, role, runs, num_defects, err>>
    /\ UNCHANGED appVars

InsertLabels == {"ins_scan", "ins_defect", "ins_length", "ins_width", "ins_repair"}

\* an INSERT (or the commit) raises a storage error (disk full, I/O error): the
\* exception propagates out of populate_sample_data, nothing retries, and the
\* connection is left as it is
StorageError(p) ==
    /\ pc[p] \in InsertLabels \cup {"commit"}
    /\ pc' = [pc EXCEPT ![p] = "failed"]
    /\ err' = [err EXCEPT ![p] = "storage error"]
    /\ UNCHANGED <<store, txn, role, runs, i, num_defects, scan_ids, defect_ids>>
    /\ UNCHANGED appVars

\* (mutant) releasing the connection commits what was pending
RollbackKeepsRows(st, t) == Committed(st, t)

\* the store after the connection's pending rows are rolled back
Rollback(st, t) == st

\* the connection of a failed run is released (process exit or garbage
\* collection): sqlite3 rolls its open transaction back
Finalize(p) ==
    /\ pc[p] \notin InsertLabels \cup {"pick_num_defects", "commit"}
    /\ txn[p].open
    /\ store' = Rollback(store, txn[p])
    /\ txn' = [txn EXCEPT ![p] = NoTxn]
    /\ UNCHANGED <<pc, role, runs, i, num_defects, scan_ids, defect_ids, err>>
    /\ UNCHANGED appVars

\* python database_setup.py
Main(p) ==
    /\ pc[p] = "main"
    /\ pc' = [pc EXCEPT ![p] = "connect"]
    /\ UNCHANGED <<store, txn, role, runs, i, num_defects, scan_ids, defect_ids, err>>
    /\ UNCHANGED appVars

\* the script is run again after it ended
Relaunch(p) ==
    /\ role[p] = "cli"
    /\ pc[p] \in {"exited", "failed"}
    /\ ~txn[p].open
    /\ runs[p] < MaxRuns
    /\ pc' = [pc EXCEPT ![p] = "main"]
    /\ err' = [err EXCEPT ![p] = NoErr]
    /\ UNCHANGED <<store, txn, role, runs, i, num_defects, scan_ids, defect_ids>>
    /\ UNCHANGED appVars

Generate(p) ==
    \/ Connect(p) \/ DropStep(p) \/ CreateStep(p)
    \/ InsertScan(p) \/ PickNumDefects(p) \/ InsertDefect(p)
    \/ InsertLength(p) \/ InsertWidth(p) \/ InsertRepair(p)
    \/ Commit(p) \/ Close(p)

\* ------------------------------------------------------------------------
\* app.py: one script run per session event

NoStats == [set |-> FALSE, total_scans |-> 0, total_defects |-> 0,
            critical_defects |-> 0, pending_repairs |-> 0]

\* SELECT COUNT(*) FROM defects WHERE severity='critical'
CountCritical(rows) ==
    Cardinality({k \in 1..Len(rows) : rows[k].severity = "critical"})

\* SELECT COUNT(*) FROM repair_history WHERE status IN ('planned', 'in_progress')
CountPending(rows) ==
    Cardinality({k \in 1..Len(rows) : rows[k].status \in {"planned", "in_progress"}})

StatsLabels == {"stats_scans", "stats_defects", "stats_critical", "stats_pending"}

\* the table the statement at a label reads or writes
TableAt(label) ==
    CASE label \in {"ins_scan", "stats_scans"} -> "scans"
      [] label \in {"ins_defect", "stats_defects", "stats_critical"} -> "defects"
      [] label \in {"ins_length", "ins_width"} -> "measurements"
      [] OTHER -> "repair_history"

NoUi == [kind |-> "none", text |-> <<>>]
NoSession == [inited |-> FALSE, query_history |-> <<>>, last_sql |-> PyNone]
NoOutcome == [raised |-> FALSE, text |-> <<>>, trace |-> <<>>]

\* if not Path('gpr_defects.db').exists(): generate
AppStart(p) ==
    /\ pc[p] = "app_start"
    /\ pc' = [pc EXCEPT ![p] = IF store.file THEN "session_init" ELSE "connect"]
    /\ UNCHANGED <<store, txn, role, runs, i, num_defects, scan_ids, defect_ids, err>>
    /\ UNCHANGED appVars

\* if 'agent' / 'query_history' / 'last_sql' not in st.session_state: ...
SessionInit(p) ==
    /\ pc[p] = "session_init"
    /\ session' = [session EXCEPT ![p] =
                      IF @.inited THEN @ ELSE [NoSession EXCEPT !.inited = TRUE]]
    /\ pc' = [pc EXCEPT ![p] = "stats_call"]
    /\ UNCHANGED <<store, txn, role, runs, i, num_defects, scan_ids, defect_ids, err>>
    /\ UNCHANGED <<cache, stats, event, query, chatVars, exVars>>

\* stats = get_db_stats(): @st.cache_data returns the cached value when there
\* is one; otherwise the body runs, one session at a time
StatsCall(p) ==
    /\ pc[p] = "stats_call"
    /\ IF cache.set
         THEN /\ stats' = [stats EXCEPT ![p] = cache]
              /\ pc' = [pc EXCEPT ![p] = "chat_check"]
         ELSE /\ \A q \in Procs \ {p} : pc[q] \notin StatsLabels
              /\ stats' = [stats EXCEPT ![p] = NoStats]
              /\ pc' = [pc EXCEPT ![p] = "stats_scans"]
    /\ UNCHANGED <<store, txn, role, runs, i, num_defects, scan_ids, defect_ids, err>>
    /\ UNCHANGED <<cache, event, query, session, chatVars, exVars>>

\* stats['total_scans'] = SELECT COUNT(*) FROM scans
StatsScans(p) ==
    /\ pc[p] = "stats_scans"
    /\ "scans" \in store.tables
    /\ stats' = [stats EXCEPT ![p].total_scans = Len(store.rows["scans"])]
    /\ pc' = [pc EXCEPT ![p] = "stats_defects"]
    /\ UNCHANGED <<store, txn, role, runs, i, num_defects, scan_ids, defect_ids, err>>
    /\ UNCHANGED <<cache, event, query, session, chatVars, exVars>>

\* stats['total_defects'] = SELECT COUNT(*) FROM defects
StatsDefects(p) ==
    /\ pc[p] = "stats_defects"
    /\ "defects" \in store.tables
    /\ stats' = [stats EXCEPT ![p].total_defects = Len(store.rows["defects"])]
    /\ pc' = [pc EXCEPT ![p] = "stats_critical"]
    /\ UNCHANGED <<store, txn, role, runs, i, num_defects, scan_ids, defect_ids, err>>
    /\ UNCHANGED <<cache, event, query, session, chatVars, exVars>>

\* stats['critical_defects'] = SELECT COUNT(*) FROM defects WHERE severity='critical'
StatsCritical(p) ==
    /\ pc[p] = "stats_critical"
    /\ "defects" \in store.tables
    /\ stats' = [stats EXCEPT ![p].critical_defects = CountCritical(store.rows["defects"])]
    /\ pc' = [pc EXCEPT ![p] = "stats_pending"]
    /\ UNCHANGED <<store, txn, role, runs, i, num_defects, scan_ids, defect_ids, err>>
    /\ UNCHANGED <<cache, event, query, session, chatVars, exVars>>

\* stats['pending_repairs'] = SELECT COUNT(*) ...; conn.close(); return stats
\* (the returned value is stored in the cache)
StatsPending(p) ==
    /\ pc[p] = "stats_pending"
    /\ "repair_history" \in store.tables
    /\ LET st == [stats[p] EXCEPT
                    !.pending_repairs = CountPending(store.rows["repair_history"]),
                    !.set = TRUE]
       IN  /\ stats' = [stats EXCEPT ![p] = st]
           /\ cache' = st
    /\ pc' = [pc EXCEPT ![p] = "chat_check"]
    /\ UNCHANGED <<store, txn, role, runs, i, num_defects, scan_ids, defect_ids, err>>
    /\ UNCHANGED <<event, query, session, chatVars, exVars>>

\* an uncaught exception ends the script run
Raise(p, e) ==
    /\ pc' = [pc EXCEPT ![p] = "failed"]
    /\ err' = [err EXCEPT ![p] = e]
    /\ UNCHANGED <<store, txn, role, runs, i, num_defects, scan_ids, defect_ids>>
    /\ UNCHANGED appVars

\* a statement names a table that another connection has dropped
NoSuchTable(p) ==
    /\ pc[p] \in StatsLabels \cup InsertLabels
    /\ TableAt(pc[p]) \notin store.tables
    /\ Raise(p, "no such table")

\* CREATE TABLE of a table that another connection has created meanwhile
TableExists(p) ==
    /\ pc[p] = "create"
    /\ CreateOrder[i[p]] \in store.tables
    /\ Raise(p, "table already exists")

\* a write waits for the lock of another connection until the timeout
DbLocked(p) ==
    /\ pc[p] \in {"drop", "create"} \cup InsertLabels
    /\ WriteLocked(p)
    /\ Raise(p, "database is locked")

\* if execute_btn and query:
ChatCheck(p) ==
    /\ pc[p] = "chat_check"
    /\ pc' = [pc EXCEPT ![p] = IF event[p] = "ask" /\ query[p] # ""
                                 THEN "chat_redirect" ELSE "history_tab"]
    /\ UNCHANGED <<store, txn, role, runs, i, num_defects, scan_ids, defect_ids, err>>
    /\ UNCHANGED appVars

\* old_stdout = sys.stdout; sys.stdout = captured_output = StringIO()
ChatRedirect(p) ==
    /\ pc[p] = "chat_redirect"
    /\ old_stdout' = [old_stdout EXCEPT ![p] = sys_stdout]
    /\ nbuf' = nbuf + 1
    /\ sys_stdout' = nbuf + 1
    /\ captured_output' = [captured_output EXCEPT ![p] = nbuf + 1]
    /\ captured' = [captured EXCEPT ![p] = <<>>]
    /\ pc' = [pc EXCEPT ![p] = "chat_query"]
    /\ UNCHANGED <<store, txn, role, runs, i, num_defects, scan_ids, defect_ids, err>>
    /\ UNCHANGED <<webVars, agent_out, result, ui, clock, exVars>>

\* what agent.invoke() can do: return an output, or raise an Exception
AgentOutcomes == {[raised |-> FALSE, text |-> <<"answer">>],
                  [raised |-> TRUE, text |-> <<"timeout">>]}

\* the example trace of the documentation, "Action Input: SELECT * FROM
\* defects\nObservation: ..."
ExampleTrace == <<"Action Input:", " ", "SELECT", " ", "x", " ", "FROM", " ", "x",
                  "\n", "x">>
ExampleSQL == <<"SELECT", " ", "x", " ", "FROM", " ", "x">>

\* what the verbose agent prints to sys.stdout during a call
AgentTraces == {<<>>, ExampleTrace}

\* (mutant) GPRDefectAgent.query without its try/except
QueryNoCatch(out) == [raised |-> out.raised, value |-> out.text]

\* GPRDefectAgent.query: the output, or "Error: " + str(e) when the agent raises
Query(out) ==
    IF out.raised THEN [raised |-> FALSE, value |-> <<"Error: ">> \o out.text]
    ELSE [raised |-> FALSE, value |-> out.text]

\* the agent prints tr: it goes to the stream sys.stdout is at that moment,
\* which is recorded when that stream is the StringIO of a running handler (a
\* StringIO whose handler has ended is never read again)
Written(tr) ==
    [q \in Procs |->
        IF captured_output[q] # Console /\ captured_output[q] = sys_stdout
          THEN captured[q] \o tr ELSE captured[q]]

\* result = st.session_state.agent.query(query), and the except branch of the
\* handler when the call raises
ChatQuery(p) ==
    /\ pc[p] = "chat_query"
    /\ \E out \in AgentOutcomes, tr \in AgentTraces :
         LET r == Query(out) IN
           /\ agent_out' = [agent_out EXCEPT ![p] =
                  [raised |-> out.raised, text |-> out.text, trace |-> tr]]
           /\ captured' = Written(tr)
           /\ IF r.raised
                THEN /\ ui' = [ui EXCEPT ![p] =
                                  [kind |-> "error", text |-> <<"Error: ">> \o r.value]]
                     /\ pc' = [pc EXCEPT ![p] = "history_tab"]
                     /\ result' = result
                ELSE /\ result' = [result EXCEPT ![p] = r.value]
                     /\ pc' = [pc EXCEPT ![p] = "chat_restore"]
                     /\ ui' = ui
    /\ UNCHANGED <<store, txn, role, runs, i, num_defects, scan_ids, defect_ids, err>>
    /\ UNCHANGED <<webVars, sys_stdout, nbuf, old_stdout, captured_output, clock, exVars>>

\* (mutant) the new entry is put in front of the list
HistoryPrepend(h, e) == <<e>> \o h

\* st.session_state.query_history.append({...})
HistoryAppend(h, e) == Append(h, e)

\* the entry the handler of session p stores for its question
HistoryEntry(p, sql) ==
    [timestamp |-> clock, query |-> query[p], result |-> result[p], sql |-> sql]

\* verbose_output = captured_output.getvalue(); sys.stdout = old_stdout;
\* extract the SQL, remember it, append to the history, display the answer
ChatRestore(p) ==
    /\ pc[p] = "chat_restore"
    /\ sys_stdout' = old_stdout[p]
    /\ LET sql == extract_sql_from_output(captured[p]) IN
         session' = [session EXCEPT
                       ![p].last_sql = sql,
                       ![p].query_history = HistoryAppend(@, HistoryEntry(p, sql))]
    /\ ui' = [ui EXCEPT ![p] = [kind |-> "info", text |-> result[p]]]
    /\ pc' = [pc EXCEPT ![p] = "history_tab"]
    /\ UNCHANGED <<store, txn, role, runs, i, num_defects, scan_ids, defect_ids, err>>
    /\ UNCHANGED <<cache, stats, event, query, nbuf, old_stdout, captured_output,
                   captured, agent_out, result, clock, exVars>>

\* if st.button("Clear History"): query_history = []; st.rerun()
\* otherwise the script run ends; either way its variables are gone
HistoryTab(p) ==
    /\ pc[p] = "history_tab"
    /\ IF event[p] = "clear"
         THEN /\ session' = [session EXCEPT ![p].query_history = <<>>]
              /\ pc' = [pc EXCEPT ![p] = "app_start"]
         ELSE /\ session' = session
              /\ pc' = [pc EXCEPT ![p] = "idle"]
    /\ event' = [event EXCEPT ![p] = "none"]
    /\ old_stdout' = [old_stdout EXCEPT ![p] = Console]
    /\ captured_output' = [captured_output EXCEPT ![p] = Console]
    /\ captured' = [captured EXCEPT ![p] = <<>>]
    /\ result' = [result EXCEPT ![p] = <<>>]
    /\ UNCHANGED <<store, txn, role, runs, i, num_defects, scan_ids, defect_ids, err>>
    /\ UNCHANGED <<cache, stats, query, sys_stdout, nbuf, agent_out, ui, clock, exVars>>

Questions == {"q1"}

\* the user triggers a script run with widget event ev
Trigger(p, ev) ==
    /\ role[p] = "app"
    /\ pc[p] \in {"idle", "failed"}
    /\ event' = [event EXCEPT ![p] = ev]
    /\ ui' = [ui EXCEPT ![p] = NoUi]
    /\ agent_out' = [agent_out EXCEPT ![p] = NoOutcome]
    /\ err' = [err EXCEPT ![p] = NoErr]
    /\ pc' = [pc EXCEPT ![p] = "app_start"]
    /\ i' = [i EXCEPT ![p] = 0]
    /\ num_defects' = [num_defects EXCEPT ![p] = 0]
    /\ scan_ids' = [scan_ids EXCEPT ![p] = <<>>]
    /\ defect_ids' = [defect_ids EXCEPT ![p] = <<>>]
    /\ UNCHANGED <<store, txn, role, runs>>
    /\ UNCHANGED <<cache, stats, session, sys_stdout, nbuf, old_stdout,
                   captured_output, captured, result, exVars>>

\* the user types a question (or nothing) and presses Ask
Ask(p) ==
    /\ clock < MaxQuestions
    /\ clock' = clock + 1
    /\ \E q \in Questions \cup {""} : query' = [query EXCEPT ![p] = q]
    /\ Trigger(p, "ask")

\* the user presses Clear History
ClearHistory(p) ==
    /\ UNCHANGED <<clock, query>>
    /\ Trigger(p, "clear")

\* any other interaction (a checkbox, an example button)
Rerun(p) ==
    /\ UNCHANGED <<clock, query>>
    /\ Trigger(p, "none")

InitStore == [file |-> FALSE, tables |-> {}, rows |-> EmptyRows]

\* the parts of the state a specification does not use
InitWeb ==
    /\ cache = NoStats
    /\ stats = [p \in Procs |-> NoStats]
    /\ event = [p \in Procs |-> "none"]
    /\ query = [p \in Procs |-> ""]
    /\ session = [p \in Procs |-> NoSession]

InitChatVars ==
    /\ sys_stdout = Console
    /\ nbuf = 0
    /\ old_stdout = [p \in Procs |-> Console]
    /\ captured_output = [p \in Procs |-> Console]
    /\ captured = [p \in Procs |-> <<>>]
    /\ agent_out = [p \in Procs |-> NoOutcome]
    /\ result = [p \in Procs |-> <<>>]
    /\ ui = [p \in Procs |-> NoUi]
    /\ clock = 0

InitEx ==
    /\ output_text = <<>>
    /\ sql_queries = PyNone

InitIdle == InitWeb /\ InitChatVars /\ InitEx

InitGen ==
    /\ store = InitStore
    /\ txn = [p \in Procs |-> NoTxn]
    /\ role = [p \in Procs |-> IF p = "p1" THEN "cli" ELSE "off"]
    /\ pc = [p \in Procs |-> IF p = "p1" THEN "main" ELSE "off"]
    /\ runs = [p \in Procs |-> 0]
    /\ i = [p \in Procs |-> 0]
    /\ num_defects = [p \in Procs |-> 0]
    /\ scan_ids = [p \in Procs |-> <<>>]
    /\ defect_ids = [p \in Procs |-> <<>>]
    /\ err = [p \in Procs |-> NoErr]
    /\ InitIdle

NextGen ==
    \E p \in Procs :
        \/ Main(p) \/ Relaunch(p)
        \/ Generate(p)
        \/ StorageError(p) \/ Finalize(p)

SpecGen == InitGen /\ [][NextGen]_vars

\* ------------------------------------------------------------------------
\* Sessions of app.py starting while gpr_defects.db is absent

InitApp ==
    /\ store = InitStore
    /\ txn = [p \in Procs |-> NoTxn]
    /\ role = [p \in Procs |-> "app"]
    /\ pc = [p \in Procs |-> "app_start"]
    /\ runs = [p \in Procs |-> 0]
    /\ i = [p \in Procs |-> 0]
    /\ num_defects = [p \in Procs |-> 0]
    /\ scan_ids = [p \in Procs |-> <<>>]
    /\ defect_ids = [p \in Procs |-> <<>>]
    /\ err = [p \in Procs |-> NoErr]
    /\ InitIdle

GetDbStats(p) ==
    \/ StatsCall(p) \/ StatsScans(p) \/ StatsDefects(p)
    \/ StatsCritical(p) \/ StatsPending(p)

StepApp(p) ==
    \/ AppStart(p) \/ Generate(p)
    \/ StorageError(p) \/ Finalize(p)
    \/ NoSuchTable(p) \/ TableExists(p) \/ DbLocked(p)
    \/ SessionInit(p) \/ GetDbStats(p)
    \/ ChatCheck(p) \/ HistoryTab(p)
    \/ Rerun(p)

NextApp == \E p \in Procs : StepApp(p)

SpecApp == InitApp /\ [][NextApp]_vars

\* every session keeps running its script, and keeps being used
FairSpecApp == SpecApp /\ \A p \in Procs : WF_vars(StepApp(p))

\* ------------------------------------------------------------------------
\* Sessions of app.py asking questions on a populated store

\* a store as one generation run leaves it
SampleStore ==
    LET nd == NumScans * MinDefects IN
    [file |-> TRUE,
     tables |-> TableNames,
     rows |-> [t \in TableNames |->
        CASE t = "scans" -> [k \in 1..NumScans |-> ScanRow(k)]
          [] t = "defects" ->
               [k \in 1..nd |-> DefectRow(k, ((k - 1) \div MinDefects) + 1, "critical")]
          [] t = "measurements" ->
               [k \in 1..(2 * nd) |->
                  IF k % 2 = 1 THEN LengthRow(k, (k + 1) \div 2)
                  ELSE WidthRow(k, k \div 2)]
          [] OTHER -> [k \in 1..NumRepairs |-> RepairRow(k, 1, "planned")]]]

InitChat ==
    /\ store = SampleStore
    /\ txn = [p \in Procs |-> NoTxn]
    /\ role = [p \in Procs |-> "app"]
    /\ pc = [p \in Procs |-> "app_start"]
    /\ runs = [p \in Procs |-> 0]
    /\ i = [p \in Procs |-> 0]
    /\ num_defects = [p \in Procs |-> 0]
    /\ scan_ids = [p \in Procs |-> <<>>]
    /\ defect_ids = [p \in Procs |-> <<>>]
    /\ err = [p \in Procs |-> NoErr]
    /\ InitIdle

ChatHandler(p) == ChatRedirect(p) \/ ChatQuery(p) \/ ChatRestore(p)

NextChat ==
    \E p \in Procs :
        \/ AppStart(p) \/ SessionInit(p) \/ GetDbStats(p)
        \/ ChatCheck(p) \/ ChatHandler(p) \/ HistoryTab(p)
        \/ Ask(p) \/ ClearHistory(p) \/ Rerun(p)

SpecChat == InitChat /\ [][NextChat]_vars

\* ------------------------------------------------------------------------
\* Direct calls of extract_sql_from_output

TextsUpTo(n) == UNION {[1..k -> Tokens] : k \in 0..n}

\* lines of agent traces
SampleLines == {
    <<"Action Input:", " ", "SELECT", " ", "x", " ", "FROM", " ", "x">>,
    <<"sql_db_query", "x", "select", " ", "x", " ", "FROM", " ", "x">>,
    <<"INSERT", " ", "INTO", " ", "x">>,
    <<"UPDATE", " ", "x", " ", "SET", " ", "x">>,
    <<"DELETE", " ", "FROM", " ", "x">>,
    <<"SELECT", " ", "x">>,
    <<"FROM", " ", "x">>,
    <<"x">>,
    <<>> }

RECURSIVE JoinLines(_, _)
JoinLines(ls, k) ==
    IF k > Len(ls) THEN <<>>
    ELSE IF k = Len(ls) THEN ls[k]
    ELSE ls[k] \o <<"\n">> \o JoinLines(ls, k + 1)

SampleTexts ==
    {JoinLines(ls, 1) : ls \in UNION {[1..k -> SampleLines] : k \in 1..MaxLines}}

InitExtract ==
    /\ store = InitStore
    /\ txn = [p \in Procs |-> NoTxn]
    /\ role = [p \in Procs |-> "off"]
    /\ pc = [p \in Procs |-> IF p = "p1" THEN "extract_call" ELSE "off"]
    /\ runs = [p \in Procs |-> 0]
    /\ i = [p \in Procs |-> 0]
    /\ num_defects = [p \in Procs |-> 0]
    /\ scan_ids = [p \in Procs |-> <<>>]
    /\ defect_ids = [p \in Procs |-> <<>>]
    /\ err = [p \in Procs |-> NoErr]
    /\ InitWeb
    /\ InitChatVars
    /\ output_text \in TextsUpTo(MaxTextLen) \cup SampleTexts \cup {ExampleTrace}
    /\ sql_queries = PyNone

ExtractCall(p) ==
    /\ pc[p] = "extract_call"
    /\ sql_queries' = extract_sql_from_output(output_text)
    /\ pc' = [pc EXCEPT ![p] = "extract_done"]
    /\ UNCHANGED <<store, txn, role, runs, i, num_defects, scan_ids, defect_ids, err>>
    /\ UNCHANGED <<webVars, chatVars, output_text>>

NextExtract == \E p \in Procs : ExtractCall(p)

SpecExtract == InitExtract /\ [][NextExtract]_vars

\* ------------------------------------------------------------------------
\* Properties of the generator (checked under SpecGen)

Rows(t) == store.rows[t]
Ids(s) == {s[k].id : k \in 1..Len(s)}
IdSeq(s) == [k \in 1..Len(s) |-> s[k].id]

\* populate_sample_data has returned in process p
Populated(p) == pc[p] = "close"

\* C1: whenever a generation run (create_database, then populate_sample_data)
\* has completed, in a first run or in a run made after an earlier one on the
\* same store, the store holds exactly the rows of that run: NumScans scans
\* (15 in the source) whose ids are the run's scan_ids, between
\* NumScans*MinDefects and NumScans*MaxDefects defects (75..225) whose ids are
\* the run's defect_ids, twice as many measurements as defects and NumRepairs
\* repair records (30); rows of an earlier run are gone.
C1_SecondRunOnly ==
    \A p \in Procs : Populated(p) =>
        /\ Len(Rows("scans")) = NumScans
        /\ IdSeq(Rows("scans")) = scan_ids[p]
        /\ Len(Rows("defects")) >= NumScans * MinDefects
        /\ Len(Rows("defects")) <= NumScans * MaxDefects
        /\ IdSeq(Rows("defects")) = defect_ids[p]
        /\ Len(Rows("measurements")) = 2 * Len(Rows("defects"))
        /\ Len(Rows("repair_history")) = NumRepairs

\* a second run has completed on the store the first run had populated
C1_Witness ==
    \E p \in Procs : Populated(p) /\ runs[p] = 2 /\ Len(Rows("defects")) > 0

\* C2: once populate_sample_data has completed on a freshly created store,
\* every defect's scan_id is the id of a scan row, and every measurement's and
\* every repair record's defect_id is the id of a defect row.
C2_ReferentialIntegrity ==
    \A p \in Procs : Populated(p) =>
        /\ \A k \in 1..Len(Rows("defects")) :
              Rows("defects")[k].scan_id \in Ids(Rows("scans"))
        /\ \A k \in 1..Len(Rows("measurements")) :
              Rows("measurements")[k].defect_id \in Ids(Rows("defects"))
        /\ \A k \in 1..Len(Rows("repair_history")) :
              Rows("repair_history")[k].defect_id \in Ids(Rows("defects"))

\* a completed run with defects, measurements and repair records in the store
C2_Witness ==
    \E p \in Procs :
        /\ Populated(p)
        /\ Len(Rows("defects")) > 0
        /\ Len(Rows("measurements")) > 0
        /\ Len(Rows("repair_history")) > 0

MeasurementsOf(d, ty) ==
    {k \in 1..Len(Rows("measurements")) :
        /\ Rows("measurements")[k].defect_id = d
        /\ Rows("measurements")[k].measurement_type = ty}

\* C3: once populate_sample_data has completed, every defect has exactly one
\* measurement of type 'length' and exactly one of type 'width', and no
\* measurement of another type exists.
C3_TwoMeasurementsPerDefect ==
    \A p \in Procs : Populated(p) =>
        /\ \A d \in Ids(Rows("defects")) :
              /\ Cardinality(MeasurementsOf(d, "length")) = 1
              /\ Cardinality(MeasurementsOf(d, "width")) = 1
        /\ \A k \in 1..Len(Rows("measurements")) :
              Rows("measurements")[k].measurement_type \in {"length", "width"}

\* a completed run that generated more than one defect
C3_Witness ==
    \E p \in Procs : Populated(p) /\ Len(Rows("defects")) > 1

\* C6 (as amended): when an insert fails mid-run the error propagates and the
\* run inserts nothing more, but the rows inserted before the failure are
\* never committed: the store is left with the four tables created by
\* create_database, every one of them empty.
C6_FailureLeavesEmptyTables ==
    \A p \in Procs : pc[p] = "failed" =>
        /\ err[p] # NoErr
        /\ store.tables = TableNames
        /\ \A t \in TableNames : Rows(t) = <<>>

\* a run failed after it had inserted scans and defects, and its connection
\* has been released
C6_Witness ==
    \E p \in Procs :
        /\ pc[p] = "failed"
        /\ Len(scan_ids[p]) > 0
        /\ Len(defect_ids[p]) > 0
        /\ ~txn[p].open

\* C6 (as stated): after a failure mid-run the store holds the rows that were
\* inserted before the failure.
C6_PartialRowsRemain ==
    \A p \in Procs : pc[p] = "failed" =>
        /\ Len(Rows("scans")) = Len(scan_ids[p])
        /\ Len(Rows("defects")) = Len(defect_ids[p])

\* ------------------------------------------------------------------------
\* Properties of the sessions starting on an absent store (SpecApp, FairSpecApp)

\* what the four SELECTs of get_db_stats return on store st
DbStats(st) ==
    [set |-> TRUE,
     total_scans |-> Len(st.rows["scans"]),
     total_defects |-> Len(st.rows["defects"]),
     critical_defects |-> CountCritical(st.rows["defects"]),
     pending_repairs |-> CountPending(st.rows["repair_history"])]

\* process q is between the start of create_database and the commit that ends
\* populate_sample_data
Generating(q) ==
    pc[q] \in {"drop", "create", "pick_num_defects", "commit"} \cup InsertLabels

\* session p is inside get_db_stats, between two of its SELECTs
Reading(p) == pc[p] \in {"stats_defects", "stats_critical", "stats_pending"}

\* the store file exists and no process is generating or about to: the
\* contents of the store do not change any more
Stable == store.file /\ \A q \in Procs : ~Generating(q) /\ pc[q] # "connect"

\* C4: the result a session holds from get_db_stats does not stay different
\* from the store for ever: once the store has stopped changing, each session
\* that got a result again and again holds the values of the store.
C4_EventuallyFresh ==
    \A p \in Procs : []<>(~Stable \/ ~stats[p].set \/ stats[p] = DbStats(store))

\* C5: no session is inside an analytics query while a process is between the
\* start of create_database and the commit of populate_sample_data, and at
\* most one session runs the generation at startup.
C5_GeneratorNeverOverlapsReader ==
    /\ \A p, q \in Procs : ~(Reading(p) /\ Generating(q))
    /\ Cardinality({p \in Procs : runs[p] > 0}) <= 1

\* C10: a call of get_db_stats made on a store that has stopped changing
\* returns, as critical_defects, the number of defect rows whose severity is
\* 'critical' and, as pending_repairs, the number of repair records whose
\* status is 'planned' or 'in_progress'.
C10_MetricsEqualStore ==
    [][\A p \in Procs :
          (Stable /\ pc[p] = "stats_call" /\ pc'[p] = "chat_check") =>
             /\ stats'[p].critical_defects = CountCritical(store'.rows["defects"])
             /\ stats'[p].pending_repairs = CountPending(store'.rows["repair_history"])]_vars

\* ------------------------------------------------------------------------
\* Properties of the chat handler (SpecChat)

\* the handler of session p has just ended a question
Answered(p) == pc[p] = "history_tab" /\ event[p] = "ask" /\ query[p] # ""

\* C7: when the agent call raises, GPRDefectAgent.query returns the text
\* "Error: " + message instead of raising; the chat handler ends every question
\* by showing an answer or a textual error, and in particular shows the
\* "Error: ..." text as the answer when the agent raised; no script run of a
\* session ends in an uncaught exception, so the session goes on to idle, where
\* the next question is accepted.
C7_AgentFailureHandled ==
    \A p \in Procs :
        /\ (pc[p] = "chat_restore" /\ agent_out[p].raised) =>
              result[p] = <<"Error: ">> \o agent_out[p].text
        /\ Answered(p) =>
              /\ ui[p].kind \in {"info", "error"}
              /\ ui[p].text # <<>>
              /\ agent_out[p].raised =>
                    /\ ui[p].kind = "info"
                    /\ ui[p].text = <<"Error: ">> \o agent_out[p].text
        /\ pc[p] # "failed"
        /\ err[p] = NoErr
        /\ (pc[p] = "idle" /\ clock < MaxQuestions) => ENABLED Ask(p)

\* a session whose first question ended in an agent error has answered a
\* second question
C7_Witness ==
    \E p \in Procs :
        /\ Answered(p)
        /\ Len(session[p].query_history) = 2
        /\ session[p].query_history[1].result[1] = "Error: "

\* ------------------------------------------------------------------------
\* Properties of extract_sql_from_output (SpecExtract)

Extracted == pc["p1"] = "extract_done"

\* some pattern matches somewhere in text
SomePatternMatches(text) ==
    \E k \in 1..Len(Patterns), a \in 1..Len(text) : MatchAt(Patterns[k], text, a).ok

StatementKeywords == {"SELECT", "INSERT", "UPDATE", "DELETE"}

\* C8: extract_sql_from_output returns None exactly when none of the six
\* patterns matches anywhere in the text, and a non-empty list otherwise, never
\* an empty list; a text without any statement keyword gives None.
C8_NoneIffNoMatch ==
    Extracted =>
        /\ sql_queries.none <=> ~SomePatternMatches(output_text)
        /\ ~sql_queries.none => sql_queries.list # <<>>
        /\ (\A j \in 1..Len(output_text) : Fold(output_text[j]) \notin StatementKeywords)
              => sql_queries = PyNone

\* None was returned for a text that holds a SELECT keyword no pattern matches
C8_Witness ==
    /\ Extracted
    /\ sql_queries = PyNone
    /\ \E j \in 1..Len(output_text) : output_text[j] = "SELECT"

SpansOf(k) == MatchSpans(Patterns[k], output_text, 1)

\* number of entries the patterns before pattern k contribute
RECURSIVE Offset(_)
Offset(k) == IF k = 1 THEN 0 ELSE Offset(k - 1) + Len(SpansOf(k - 1))

\* C9: the returned list holds, for pattern 1 to pattern 6 in this order, one
\* entry per match of the pattern: the matched piece of the text, the matches
\* of one pattern in the order in which they occur in the text; a piece matched
\* by several patterns appears once for each of them.  On the documented
\* example the list is the statement "SELECT * FROM defects", once for the
\* Action Input pattern and once for the SELECT pattern.
C9_ConcatenationInPatternOrder ==
    Extracted =>
        /\ Len(sql_queries.list) = Offset(Len(Patterns) + 1)
        /\ \A k \in 1..Len(Patterns) : \A j \in 1..Len(SpansOf(k)) :
              /\ sql_queries.list[Offset(k) + j] =
                    SubSeq(output_text, SpansOf(k)[j].from, SpansOf(k)[j].to)
              /\ j > 1 => SpansOf(k)[j - 1].to < SpansOf(k)[j].from
        /\ output_text = ExampleTrace => sql_queries.list = <<ExampleSQL, ExampleSQL>>

\* a text in which the SELECT pattern matches twice and the Action Input
\* pattern matches too
C9_Witness ==
    /\ Extracted
    /\ Len(SpansOf(1)) >= 1
    /\ Len(SpansOf(3)) >= 2
    /\ sql_queries.list[1] = sql_queries.list[Len(SpansOf(1)) + Len(SpansOf(2)) + 1]

\* ------------------------------------------------------------------------
\* Properties of the interaction history (SpecChat)

QueryHistory(p) == session[p].query_history

\* C11: the interaction history of a session changes in two ways only.  The
\* step of the chat handler that follows a returned agent call (which includes a
\* call that returned an "Error: " text) appends exactly one entry (timestamp,
\* query, result, sql) at the end, all earlier entries unchanged and in order,
\* and every returned agent call is followed by that step; Clear History makes
\* the list empty.  No other step of the session or of another session changes
\* the list.
C11_HistoryGrowsUntilCleared ==
    [][\A p \in Procs :
          LET appended == pc[p] = "chat_restore" /\ pc'[p] # "chat_restore"
              cleared == pc[p] = "history_tab" /\ event[p] = "clear"
                            /\ pc'[p] # "history_tab"
              last == QueryHistory(p)'[Len(QueryHistory(p)')]
          IN  /\ appended =>
                    /\ Len(QueryHistory(p)') = Len(QueryHistory(p)) + 1
                    /\ SubSeq(QueryHistory(p)', 1, Len(QueryHistory(p))) = QueryHistory(p)
                    /\ last.timestamp = clock
                    /\ last.query = query[p]
                    /\ last.result = result[p]
                    /\ last.sql = session'[p].last_sql
                    /\ last.sql = extract_sql_from_output(captured[p])
                    /\ agent_out[p].raised =>
                          last.result = <<"Error: ">> \o agent_out[p].text
              /\ cleared => QueryHistory(p)' = <<>>
              /\ (pc[p] = "chat_query" /\ pc'[p] # "chat_query") =>
                    pc'[p] = "chat_restore"
              /\ (~appended /\ ~cleared) => QueryHistory(p)' = QueryHistory(p)]_vars

\* a session holds two entries in the order in which they were asked, the
\* later one for an agent call that returned an "Error: " text
C11_Witness ==
    \E p \in Procs :
        /\ pc[p] = "idle"
        /\ Len(QueryHistory(p)) = 2
        /\ QueryHistory(p)[1].timestamp < QueryHistory(p)[2].timestamp
        /\ QueryHistory(p)[1].result[1] = "answer"
        /\ QueryHistory(p)[2].result[1] = "Error: "

\* ------------------------------------------------------------------------
\* Properties of the stdout capture (SpecChat)

\* session p is between its redirection of sys.stdout and its restoration
Capturing(p) == pc[p] \in {"chat_query", "chat_restore"}

\* C12: the capture leaves the process-wide sys.stdout unchanged: whenever no
\* handler of any session is between its redirection and its restoration,
\* sys.stdout is the stream it was before any capture started; and the trace a
\* handler reads from its buffer after its agent call is exactly the output
\* written during that call.
C12_StdoutRestored ==
    /\ (\A p \in Procs : ~Capturing(p)) => sys_stdout = Console
    /\ \A p \in Procs :
          pc[p] = "chat_restore" => captured[p] = agent_out[p].trace

====
